---- MODULE Spec2Model ----
(***************************************************************************)
(* Model of dynp: PropertyCollection (src/src/property_collection.rs), a   *)
(* HashMap<TypeId, Box<dyn Any>> of Property<T> slots, and Property<T>     *)
(* (src/src/property.rs), an Option<T> value with a Vec of subscriber      *)
(* callbacks that Property::assign invokes after storing the value.        *)
(***************************************************************************)
EXTENDS Integers, Sequences, FiniteSets, TLC

(* ---------------------------- bounds ---------------------------------- *)

\* Total number of PropertyCollection::assign calls in one behaviour.
MaxAssigns == 2
\* Total number of PropertyCollection::subscribe calls in one behaviour.
MaxSubs == 2

\* Type identities (TypeId::of::<T>()); the types the tests use. "&i32" is
\* the reference type of test_contains_property_native, distinct from "i32".
Types == {"i32", "&i32", "MyInt"}
\* Payloads of a value; the numbers the tests assign.
Values == {11, 42}
\* Callbacks handed to subscribe; callback c bumps the counter count[c], as
\* the closures of test_subscribe_property_i32 bump their Arc<Mutex<i32>>.
Callbacks == {"A", "B"}

(* ------------------------- Option and Result --------------------------- *)

\* Option<T>: None is the empty sequence, Some(v) the one-element sequence.
None == <<>>
Some(v) == <<v>>

PropertyNotFound == "PropertyNotFound"
PropertyTypeMismatch == "PropertyTypeMismatch"

\* Result<&T, PropertyCollectionError>; val is Some(v) in Ok(v), err is ""
\* in Ok(_).
Ok(v) == [ok |-> TRUE, val |-> Some(v), err |-> ""]
Err(e) == [ok |-> FALSE, val |-> None, err |-> e]

(* ------------------------------ state ---------------------------------- *)

VARIABLES
    properties,  \* PropertyCollection.properties: TypeId -> boxed Property
    count,       \* the counters the subscribed closures own
    calls,       \* callback invocations made by the last call, in order
    last,        \* the last API call and what it returned
    assigned,    \* history: the values passed to assign, per type of value
    subscribed   \* history: callbacks passed to subscribe, per type, each
                 \* with the number of assigns of that type made before it

vars == <<properties, count, calls, last, assigned, subscribed>>

(* ----------------------------- Property<T> ------------------------------ *)

\* Property::new(value) for a value of type T: the value present, no
\* subscriber. ty is the T of Property<T>, what downcast_ref compares.
Property_new(T, value) ==
    [ty |-> T, value |-> Some(value), subscriptions |-> <<>>]

\* Property::<T>::empty()
Property_empty(T) ==
    [ty |-> T, value |-> None, subscriptions |-> <<>>]

\* Property::get: self.value.as_ref()
Property_get(p) == p.value

\* Property::assign that keeps a value already present (first write wins).
Property_assign_keep(p, value) ==
    LET stored == IF p.value = None THEN [p EXCEPT !.value = Some(value)] ELSE p
    IN  [property |-> stored,
         calls |-> [i \in 1..Len(stored.subscriptions) |->
                       [cb |-> stored.subscriptions[i],
                        arg |-> stored.value[1]]]]

\* Property::assign that notifies only when the value changed.
Property_assign_on_change(p, value) ==
    LET stored == [p EXCEPT !.value = Some(value)]
    IN  [property |-> stored,
         calls |-> IF p.value = Some(value) THEN <<>>
                   ELSE [i \in 1..Len(stored.subscriptions) |->
                            [cb |-> stored.subscriptions[i],
                             arg |-> stored.value[1]]]]

\* Property::assign that calls the subscriptions before it stores the value:
\* they are handed the previous value, and nothing when there was none.
Property_assign_notify_first(p, value) ==
    [property |-> [p EXCEPT !.value = Some(value)],
     calls |-> IF p.value = None THEN <<>>
               ELSE [i \in 1..Len(p.subscriptions) |->
                        [cb |-> p.subscriptions[i], arg |-> p.value[1]]]]

\* Property::assign: store the value, then call every subscription, in Vec
\* order, with self.value.as_ref().unwrap(). Yields the property after the
\* call and the invocations made.
Property_assign(p, value) ==
    LET stored == [p EXCEPT !.value = Some(value)]
    IN  [property |-> stored,
         calls |-> [i \in 1..Len(stored.subscriptions) |->
                       [cb |-> stored.subscriptions[i],
                        arg |-> stored.value[1]]]]

\* Property::subscribe that also calls the new callback with a value that
\* is already present.
Property_subscribe_retro(p, callback) ==
    [property |-> [p EXCEPT !.subscriptions = Append(@, callback)],
     calls |-> IF p.value = None THEN <<>>
               ELSE <<[cb |-> callback, arg |-> p.value[1]]>>]

\* Property::subscribe that puts the new callback in front of the Vec.
Property_subscribe_front(p, callback) ==
    [property |-> [p EXCEPT !.subscriptions = <<callback>> \o @],
     calls |-> <<>>]

\* Property::subscribe that skips a callback the Vec already holds.
Property_subscribe_dedup(p, callback) ==
    [property |-> IF \E i \in 1..Len(p.subscriptions) :
                        p.subscriptions[i] = callback
                  THEN p
                  ELSE [p EXCEPT !.subscriptions = Append(@, callback)],
     calls |-> <<>>]

\* Property::subscribe: self.subscriptions.push(callback); nothing is called.
Property_subscribe(p, callback) ==
    [property |-> [p EXCEPT !.subscriptions = Append(@, callback)],
     calls |-> <<>>]

(* ------------------------- PropertyCollection -------------------------- *)

\* PropertyCollection::new(): HashMap::new()
PropertyCollection_new == [t \in {} |-> Property_empty(t)]

\* An insert that rebuilds the map around the new entry alone.
Insert_only(props, key, boxed) == [t \in {key} |-> boxed]

\* HashMap::insert(key, boxed)
Insert(props, key, boxed) ==
    [t \in DOMAIN props \cup {key} |-> IF t = key THEN boxed ELSE props[t]]

\* get_property::<T> / get_property_mut::<T>: look the TypeId up, then
\* downcast the box to Property<T>. Ok stands for the reference to props[T].
get_property(props, T) ==
    IF T \in DOMAIN props
    THEN IF props[T].ty = T
         THEN [ok |-> TRUE, err |-> ""]
         ELSE [ok |-> FALSE, err |-> PropertyTypeMismatch]
    ELSE [ok |-> FALSE, err |-> PropertyNotFound]

\* ToOwned that strips the reference: &i32 would share the slot of i32.
Owned_deref(U) == IF U = "&i32" THEN "i32" ELSE U

\* U: ToOwned<Owned = T>. Every type assign can take by value is Sized, and
\* the only ToOwned impl for the types here is the blanket one for Clone
\* types, whose Owned is the type itself (so &i32 owns to &i32, not i32).
Owned(U) == U

\* Every operation below yields the map after the call, the callback
\* invocations it made, what it returned, and whether it panicked.

\* get that reports an empty property as a type mismatch.
get_empty_mismatch(props, T) ==
    LET property == get_property(props, T)
    IN  [properties |-> props, calls |-> <<>>, panic |-> FALSE,
         res |-> IF ~property.ok THEN Err(property.err)
                 ELSE IF Property_get(props[T]) # None
                      THEN Ok(Property_get(props[T])[1])
                      ELSE Err(PropertyTypeMismatch)]

\* get that inserts an empty property for a type that has none.
get_or_insert(props, T) ==
    LET property == get_property(props, T)
    IN  [properties |-> IF T \in DOMAIN props THEN props
                        ELSE Insert(props, T, Property_empty(T)),
         calls |-> <<>>, panic |-> FALSE,
         res |-> IF ~property.ok THEN Err(property.err)
                 ELSE IF Property_get(props[T]) # None
                      THEN Ok(Property_get(props[T])[1])
                      ELSE Err(PropertyNotFound)]

\* PropertyCollection::get::<T>(&self)
get(props, T) ==
    LET property == get_property(props, T)
    IN  [properties |-> props, calls |-> <<>>, panic |-> FALSE,
         res |-> IF ~property.ok THEN Err(property.err)
                 ELSE IF Property_get(props[T]) # None
                      THEN Ok(Property_get(props[T])[1])
                      ELSE Err(PropertyNotFound)]

\* contains that counts every property of the map, empty ones included.
contains_any(props, T) ==
    [properties |-> props, calls |-> <<>>, panic |-> FALSE,
     res |-> get_property(props, T).ok]

\* PropertyCollection::contains::<T>(&self)
contains(props, T) ==
    LET property == get_property(props, T)
    IN  [properties |-> props, calls |-> <<>>, panic |-> FALSE,
         res |-> IF property.ok THEN Property_get(props[T]) # None
                 ELSE FALSE]

\* assign that always inserts a fresh Property, also over an existing slot.
assign_fresh(props, U, value) ==
    [properties |-> Insert(props, Owned(U), Property_new(U, value)),
     calls |-> <<>>, panic |-> FALSE]

\* PropertyCollection::assign::<U, T>(&mut self, value: U)
assign(props, U, value) ==
    LET T == Owned(U)
        property == get_property(props, T)
    IN  IF property.ok
        THEN LET r == Property_assign(props[T], value)
             IN  [properties |-> [props EXCEPT ![T] = r.property],
                  calls |-> r.calls, panic |-> FALSE]
        ELSE IF property.err = PropertyNotFound
             THEN [properties |-> Insert(props, T, Property_new(U, value)),
                   calls |-> <<>>, panic |-> FALSE]
             ELSE [properties |-> props, calls |-> <<>>, panic |-> TRUE]

\* subscribe that always inserts a new empty property for the callback.
subscribe_fresh(props, T, callback) ==
    LET r == Property_subscribe(Property_empty(T), callback)
    IN  [properties |-> Insert(props, T, r.property),
         calls |-> r.calls, panic |-> FALSE]

\* PropertyCollection::subscribe::<T>(&mut self, callback)
subscribe(props, T, callback) ==
    LET property == get_property(props, T)
    IN  IF property.ok
        THEN LET r == Property_subscribe(props[T], callback)
             IN  [properties |-> [props EXCEPT ![T] = r.property],
                  calls |-> r.calls, panic |-> FALSE]
        ELSE IF property.err = PropertyNotFound
             THEN LET r == Property_subscribe(Property_empty(T), callback)
                  IN  [properties |-> Insert(props, T, r.property),
                       calls |-> r.calls, panic |-> FALSE]
             ELSE [properties |-> props, calls |-> <<>>, panic |-> TRUE]

(* ----------------------------- callbacks ------------------------------- *)

\* The callbacks run: each invocation bumps the counter of its closure.
RECURSIVE Invoke(_, _)
Invoke(cnt, cs) ==
    IF cs = <<>> THEN cnt
    ELSE Invoke([cnt EXCEPT ![Head(cs).cb] = @ + 1], Tail(cs))

(* ------------------------------ actions -------------------------------- *)

RECURSIVE SumLen(_, _)
SumLen(f, S) ==
    IF S = {} THEN 0
    ELSE LET t == CHOOSE x \in S : TRUE IN Len(f[t]) + SumLen(f, S \ {t})

TotalAssigns == SumLen(assigned, Types)
TotalSubs == SumLen(subscribed, Types)

NoRes == Err("")

Init ==
    /\ properties = PropertyCollection_new
    /\ count = [c \in Callbacks |-> 0]
    /\ calls = <<>>
    /\ last = [op |-> "new", ty |-> "", arg |-> None, res |-> NoRes]
    /\ assigned = [t \in Types |-> <<>>]
    /\ subscribed = [t \in Types |-> <<>>]

\* collection.assign(value) with value: U
Assign(U, value) ==
    /\ TotalAssigns < MaxAssigns
    /\ LET r == assign(properties, U, value)
       IN  /\ properties' = r.properties
           /\ calls' = r.calls
           /\ count' = Invoke(count, r.calls)
           /\ last' = [op |-> IF r.panic THEN "panic" ELSE "assign",
                       ty |-> U, arg |-> Some(value), res |-> NoRes]
    /\ assigned' = [assigned EXCEPT ![U] = Append(@, value)]
    /\ UNCHANGED subscribed

\* collection.subscribe::<T>(callback)
Subscribe(T, callback) ==
    /\ TotalSubs < MaxSubs
    /\ LET r == subscribe(properties, T, callback)
       IN  /\ properties' = r.properties
           /\ calls' = r.calls
           /\ count' = Invoke(count, r.calls)
           /\ last' = [op |-> IF r.panic THEN "panic" ELSE "subscribe",
                       ty |-> T, arg |-> Some(callback), res |-> NoRes]
    /\ subscribed' = [subscribed EXCEPT
                        ![T] = Append(@, [cb |-> callback,
                                          at |-> Len(assigned[T])])]
    /\ UNCHANGED assigned

\* collection.get::<T>()
Get(T) ==
    /\ LET r == get(properties, T)
       IN  /\ properties' = r.properties
           /\ calls' = r.calls
           /\ count' = Invoke(count, r.calls)
           /\ last' = [op |-> "get", ty |-> T, arg |-> None, res |-> r.res]
    /\ UNCHANGED <<assigned, subscribed>>

\* collection.contains::<T>()
Contains(T) ==
    /\ LET r == contains(properties, T)
       IN  /\ properties' = r.properties
           /\ calls' = r.calls
           /\ count' = Invoke(count, r.calls)
           /\ last' = [op |-> "contains", ty |-> T, arg |-> None,
                       res |-> Ok(r.res)]
    /\ UNCHANGED <<assigned, subscribed>>

Next ==
    \/ \E U \in Types, value \in Values : Assign(U, value)
    \/ \E T \in Types, callback \in Callbacks : Subscribe(T, callback)
    \/ \E T \in Types : Get(T)
    \/ \E T \in Types : Contains(T)

Spec == Init /\ [][Next]_vars


(* ----------------------------- re-entrancy ----------------------------- *)

\* Depth to which nested calls are followed where the store lets them run.
MaxDepth == 1

\* Callbacks that own a shared handle to the store (a callback is 'static:
\* it cannot hold a plain reference) and, when invoked with a value of T,
\* call back into the store: "RA" calls assign with the value it was handed
\* and unwraps the handle's answer (a refusal panics), "RS" tries to
\* subscribe "A" to T and returns when the handle refuses.
ReentrantCallbacks == {"RA", "RS"}
NestedOp(cb) == IF cb = "RA" THEN "assign" ELSE "subscribe"
OnRefusal(cb) == IF cb = "RA" THEN "panic" ELSE "skip"

\* A receiver that would let a callback reach the store during assign.
assign_receiver_shared == "&self"

\* The receiver of PropertyCollection::assign: the store is borrowed
\* exclusively from the call to the return, callbacks included.
assign_receiver == "&mut self"

\* Whether a callback's handle grants access to the store during assign.
Granted == assign_receiver # "&mut self"

\* Property::assign's loop over the invocations cs of the subscribers of T,
\* with callbacks that may call back into the store. st holds the map, the
\* counters, the invocations made so far and whether a callback panicked;
\* a panic ends the loop (it propagates out of assign).
RECURSIVE Deliver(_, _, _, _)
Deliver(st, cs, T, depth) ==
    IF cs = <<>> \/ st.panicked THEN st
    ELSE LET c == Head(cs)
             plain == [cb |-> c.cb, arg |-> c.arg, nested |-> None]
             tried(done) == [cb |-> c.cb, arg |-> c.arg,
                             nested |-> Some([op |-> NestedOp(c.cb),
                                              executed |-> done])]
         IN  IF c.cb \in Callbacks
             THEN Deliver([st EXCEPT
                              !.count = [@ EXCEPT ![c.cb] = @ + 1],
                              !.calls = Append(@, plain)],
                          Tail(cs), T, depth)
             ELSE IF ~Granted
             THEN Deliver([st EXCEPT
                              !.calls = Append(@, tried(FALSE)),
                              !.panicked = OnRefusal(c.cb) = "panic"],
                          Tail(cs), T, depth)
             ELSE IF depth >= MaxDepth
             THEN Deliver([st EXCEPT !.calls = Append(@, plain)],
                          Tail(cs), T, depth)
             ELSE IF NestedOp(c.cb) = "subscribe"
             THEN Deliver([st EXCEPT
                              !.properties =
                                  subscribe(@, T, "A").properties,
                              !.calls = Append(@, tried(TRUE))],
                          Tail(cs), T, depth)
             ELSE LET r == assign(st.properties, T, c.arg)
                      inner == Deliver([st EXCEPT
                                           !.properties = r.properties,
                                           !.calls = Append(@, tried(TRUE))],
                                       r.calls, T, depth + 1)
                  IN  Deliver(inner, Tail(cs), T, depth)

\* collection.assign(value) with value: U, the subscribers being callbacks
\* of either kind.
AssignR(U, value) ==
    /\ TotalAssigns < MaxAssigns
    /\ LET r == assign(properties, U, value)
           d == Deliver([properties |-> r.properties, count |-> count,
                         calls |-> <<>>, panicked |-> FALSE],
                        r.calls, Owned(U), 0)
       IN  /\ properties' = d.properties
           /\ calls' = d.calls
           /\ count' = d.count
           /\ last' = [op |-> IF r.panic THEN "panic" ELSE "assign",
                       ty |-> U, arg |-> Some(value),
                       res |-> IF d.panicked THEN Err("BorrowMutError")
                               ELSE NoRes]
    /\ assigned' = [assigned EXCEPT ![U] = Append(@, value)]
    /\ UNCHANGED subscribed

\* The calls that write to the store, with subscribers of either kind; the
\* plain subscriber is "A", the one "RS" subscribes.
NextR ==
    \/ \E U \in Types, value \in Values : AssignR(U, value)
    \/ \E T \in Types, callback \in {"A"} \cup ReentrantCallbacks :
          Subscribe(T, callback)

SpecR == Init /\ [][NextR]_vars

(* ------------------------------ claims --------------------------------- *)

\* The step just taken was the call op on type T.
Did(op, T) == last'.op = op /\ last'.ty = T

\* The callbacks of a sequence of invocations or of registrations.
Cbs(s) == [i \in 1..Len(s) |-> s[i].cb]

\* Number of positions of s that hold c.
Occ(c, s) == Cardinality({i \in 1..Len(s) : s[i] = c})

\* C1: type isolation. An assign of a value of type T1 never makes
\* get::<T2>() succeed for another type T2, and where get::<T2>() failed with
\* PropertyNotFound before the assign it fails with PropertyNotFound after it.
C1_TypeIsolation ==
    [][\A T1, T2 \in Types :
          (T1 # T2 /\ Did("assign", T1)) =>
              /\ ~get(properties, T2).res.ok => ~get(properties', T2).res.ok
              /\ get(properties, T2).res = Err(PropertyNotFound)
                    => get(properties', T2).res = Err(PropertyNotFound)]_vars

\* C1 witness: i32 holds a value, &i32 was just assigned, and MyInt, never
\* assigned, is still not found.
C1_Witness ==
    /\ last.op = "assign" /\ last.ty = "&i32"
    /\ get(properties, "i32").res.ok
    /\ get(properties, "MyInt").res = Err(PropertyNotFound)

\* C2: last write wins. Once a type has been assigned, get::<T>() returns Ok
\* with the value of the most recent assign::<T>, whatever came before.
C2_LastWriteWins ==
    \A T \in Types :
        assigned[T] # <<>> =>
            get(properties, T).res = Ok(assigned[T][Len(assigned[T])])

\* C2 witness: assign(v1); assign(v2); get::<T>() with v1 # v2 returned v2.
C2_Witness ==
    \E T \in Types :
        /\ Len(assigned[T]) = 2 /\ assigned[T][1] # assigned[T][2]
        /\ last.op = "get" /\ last.ty = T /\ last.res = Ok(assigned[T][2])

\* Invocations owed to callback c: one per registration of c and per assign
\* of the registration's type made after it.
RECURSIVE Owed(_, _)
Owed(c, S) ==
    IF S = {} THEN 0
    ELSE LET T == CHOOSE x \in S : TRUE
             regs == {i \in 1..Len(subscribed[T]) : subscribed[T][i].cb = c}
             RECURSIVE Sum(_)
             Sum(I) == IF I = {} THEN 0
                       ELSE LET i == CHOOSE x \in I : TRUE
                            IN  Len(assigned[T]) - subscribed[T][i].at
                                + Sum(I \ {i})
         IN  Sum(regs) + Owed(c, S \ {T})

C4_EarlySubscription ==
    [][\A T \in Types :
          /\ (Did("subscribe", T) /\ assigned[T] = <<>>) =>
                calls' = <<>> /\ count' = count
          /\ (Did("assign", T) /\ assigned[T] = <<>>) =>
                calls' = [i \in 1..Len(subscribed[T]) |->
                             [cb |-> subscribed[T][i].cb,
                              arg |-> last'.arg[1]]]]_vars

\* C4 witness: the first assign of a type that was subscribed to before has
\* just invoked the early subscriber.
C4_Witness ==
    \E T \in Types :
        /\ last.op = "assign" /\ last.ty = T /\ Len(assigned[T]) = 1
        /\ Len(subscribed[T]) = 1 /\ subscribed[T][1].at = 0
        /\ calls = <<[cb |-> subscribed[T][1].cb, arg |-> assigned[T][1]]>>
        /\ count[subscribed[T][1].cb] = 1

\* C5: ordering. Within one assign::<T> the subscribers are invoked in the
\* order of their subscribe calls.
C5_RegistrationOrder ==
    [][\A T \in Types :
          Did("assign", T) => Cbs(calls') = Cbs(subscribed[T])]_vars

\* C5 witness: A was subscribed before B, and an assign invoked A, then B.
C5_Witness ==
    \E T \in Types :
        /\ Cbs(subscribed[T]) = <<"A", "B">>
        /\ last.op = "assign" /\ last.ty = T
        /\ Cbs(calls) = <<"A", "B">>

\* C6: contains::<T>() is true exactly when assign::<T> has been performed;
\* a property that exists only through subscribe counts as absent, and a
\* fresh store answers false for every type.
C6_ContainsIffAssigned ==
    \A T \in Types : contains(properties, T).res <=> assigned[T] # <<>>

\* C6 witness: contains::<T>() just answered false for a type whose
\* property exists through subscribe only.
C6_Witness ==
    \E T \in Types :
        /\ T \in DOMAIN properties /\ subscribed[T] # <<>>
        /\ assigned[T] = <<>>
        /\ last.op = "contains" /\ last.ty = T /\ last.res = Ok(FALSE)

\* C7: get::<T>() fails with PropertyNotFound exactly when no assign::<T>
\* has been performed (no property, or a property that was only subscribed
\* to).
C7_GetNotFoundIffUnassigned ==
    \A T \in Types :
        get(properties, T).res = Err(PropertyNotFound) <=> assigned[T] = <<>>

\* C7 witness: get::<T>() just failed with PropertyNotFound on a property
\* that exists but is empty.
C7_Witness ==
    \E T \in Types :
        /\ T \in DOMAIN properties /\ properties[T].value = None
        /\ last.op = "get" /\ last.ty = T
        /\ last.res = Err(PropertyNotFound)

\* Absent, Empty (subscribed to only) or Present, as 0, 1, 2.
SlotState(props, T) ==
    IF T \notin DOMAIN props THEN 0
    ELSE IF props[T].value = None THEN 1 ELSE 2

\* C8: the state of a type's slot only moves forward (Absent, Empty,
\* Present), and once contains::<T>() is true it stays true.
C8_SlotStateForward ==
    [][\A T \in Types :
          /\ SlotState(properties', T) >= SlotState(properties, T)
          /\ contains(properties, T).res => contains(properties', T).res]_vars

\* C8 witness: a subscribe on a type that holds a value has left it present.
C8_Witness ==
    \E T \in Types :
        /\ last.op = "subscribe" /\ last.ty = T
        /\ subscribed[T][Len(subscribed[T])].at > 0
        /\ contains(properties, T).res

\* C9: subscribe is not retroactive. It invokes no callback, also when the
\* type holds a value, and changes the answer of get and contains for no
\* type; the next assign::<T> invokes the callbacks subscribed since the
\* previous one.
C9_SubscribeNotRetroactive ==
    [][\A T \in Types :
          /\ Did("subscribe", T) =>
                /\ calls' = <<>> /\ count' = count
                /\ \A T2 \in Types :
                      /\ get(properties', T2).res = get(properties, T2).res
                      /\ contains(properties', T2).res
                            = contains(properties, T2).res
          /\ Did("assign", T) =>
                \A i \in 1..Len(subscribed[T]) :
                    subscribed[T][i].at = Len(assigned[T]) =>
                        \E j \in 1..Len(calls') :
                            calls'[j] = [cb |-> subscribed[T][i].cb,
                                         arg |-> last'.arg[1]]]_vars

\* C9 witness: a callback subscribed while the type held a value was
\* invoked by the next assign, and by nothing before it.
C9_Witness ==
    \E T \in Types :
        /\ Len(assigned[T]) = 2
        /\ Len(subscribed[T]) = 1 /\ subscribed[T][1].at = 1
        /\ last.op = "assign" /\ last.ty = T
        /\ calls = <<[cb |-> subscribed[T][1].cb, arg |-> assigned[T][2]]>>
        /\ count[subscribed[T][1].cb] = 1

\* C10: get and contains are pure reads. Succeeding or failing, they leave
\* the map with every property's value and subscriptions as it was, create
\* no property and invoke no subscriber.
C10_ReadsArePure ==
    [][\A T \in Types :
          (Did("get", T) \/ Did("contains", T)) =>
              /\ properties' = properties
              /\ calls' = <<>> /\ count' = count]_vars

\* C10 witness: a failing get on a type without a property, in a store that
\* holds a subscribed property of another type, created nothing.
C10_Witness ==
    \E T, T2 \in Types :
        /\ last.op = "get" /\ last.ty = T /\ ~last.res.ok
        /\ T \notin DOMAIN properties
        /\ T2 \in DOMAIN properties
        /\ properties[T2].subscriptions # <<>>

\* The subscriber list of T in the map; empty when T has no property.
Subs(props, T) == IF T \in DOMAIN props THEN props[T].subscriptions ELSE <<>>

\* C11: assign of a value of type T1 changes only the slot of T1. For every
\* other type T2 (a reference type and its owned type included) the answer
\* of get::<T2>() and the subscriber list of T2 are unchanged, T2 gains no
\* property, and only the subscribers of T1 are invoked.
C11_AssignFrame ==
    [][\A T1, T2 \in Types :
          (T1 # T2 /\ Did("assign", T1)) =>
              /\ get(properties', T2).res = get(properties, T2).res
              /\ Subs(properties', T2) = Subs(properties, T2)
              /\ (T2 \in DOMAIN properties') = (T2 \in DOMAIN properties)
              /\ Cbs(calls') = Cbs(subscribed[T1])
              /\ \A c \in Callbacks :
                    count'[c] = count[c] + Occ(c, Cbs(subscribed[T1]))]_vars

\* C11 witness: assign(42: i32), then an assign of a &i32; get::<i32>() is
\* still 42, get::<&i32>() is the reference's value, and the subscriber of
\* i32 was not invoked by the second assign.
C11_Witness ==
    /\ assigned["i32"] = <<42>> /\ assigned["&i32"] = <<11>>
    /\ last.op = "assign" /\ last.ty = "&i32"
    /\ get(properties, "i32").res = Ok(42)
    /\ get(properties, "&i32").res = Ok(11)
    /\ Subs(properties, "i32") # <<>> /\ calls = <<>>

\* C12: Property::assign stores the value before any subscriber runs. Every
\* invocation made by assign(v) is handed v, never the previous value, and
\* the value it is handed is the one the slot holds.
C12_StoreBeforeNotify ==
    [][\A T \in Types :
          Did("assign", T) =>
              /\ Len(calls') = Len(subscribed[T])
              /\ \A i \in 1..Len(calls') :
                    /\ calls'[i].arg = last'.arg[1]
                    /\ Some(calls'[i].arg) = properties'[T].value]_vars

\* C12 witness: a slot that held one value was assigned another one, and
\* both of its subscribers were handed the new value.
C12_Witness ==
    \E T \in Types :
        /\ Len(assigned[T]) = 2 /\ assigned[T][1] # assigned[T][2]
        /\ last.op = "assign" /\ last.ty = T
        /\ Len(calls) = 2
        /\ \A i \in 1..2 : calls[i].arg = assigned[T][2]

\* The types a call of assign or subscribe has named so far.
Touched == {T \in Types : assigned[T] # <<>> \/ subscribed[T] # <<>>}

\* C13: the slot map starts empty, holds one entry for exactly the types
\* that were assigned or subscribed to (so it grows by one on the first
\* assign or subscribe of a type and not otherwise), and never shrinks.
C13_MapGrowth ==
    /\ [](DOMAIN properties = Touched)
    /\ [][/\ DOMAIN properties \subseteq DOMAIN properties'
          /\ Cardinality(DOMAIN properties')
                = Cardinality(DOMAIN properties)
                  + (IF \E T \in Types :
                           /\ Did("assign", T) \/ Did("subscribe", T)
                           /\ T \notin Touched
                     THEN 1 ELSE 0)]_vars

\* C13 witness: two entries after three calls; the assign of a type that
\* was subscribed to before added none.
C13_Witness ==
    \E T, T2 \in Types :
        /\ T # T2 /\ DOMAIN properties = {T, T2}
        /\ subscribed[T] # <<>> /\ subscribed[T][1].at = 0
        /\ assigned[T] # <<>> /\ subscribed[T2] # <<>>
        /\ last.op = "assign" /\ last.ty = T

\* C14: PropertyTypeMismatch is unreachable. The entry stored under the
\* identity of T is a Property<T>, so get::<T>() never returns
\* PropertyTypeMismatch and neither assign nor subscribe panics.
C14_NoTypeMismatch ==
    /\ \A T \in DOMAIN properties : properties[T].ty = T
    /\ \A T \in Types :
          /\ get(properties, T).res.err # PropertyTypeMismatch
          /\ get_property(properties, T).err # PropertyTypeMismatch
    /\ last.op # "panic"
    /\ last.res.err # PropertyTypeMismatch

\* C14 witness: i32 and &i32 both hold a property, one made by assign and
\* one by subscribe, and get::<&i32>() has just answered without mismatch.
C14_Witness ==
    /\ assigned["i32"] # <<>> /\ subscribed["&i32"] # <<>>
    /\ assigned["&i32"] # <<>>
    /\ last.op = "get" /\ last.ty = "&i32" /\ last.res.ok

\* C15: subscriber lists are append-only. The subscriber list of T is the
\* sequence of the callbacks passed to subscribe::<T>, in call order and
\* with duplicates kept; no assign or subscribe drops, reorders or replaces
\* an entry.
C15_SubscribersAppendOnly ==
    \A T \in Types : Subs(properties, T) = Cbs(subscribed[T])

\* C15 witness: the same callback subscribed twice, once before and once
\* after an assign, is held twice.
C15_Witness ==
    \E T \in Types, c \in Callbacks :
        /\ Cbs(subscribed[T]) = <<c, c>>
        /\ subscribed[T][1].at = 0 /\ subscribed[T][2].at = 1
        /\ Subs(properties, T) = <<c, c>>

\* The invocations of the last call in which the callback called back
\* into the store.
Attempts == {i \in 1..Len(calls) : calls[i].nested # None}

C16_WitnessPanic ==
    \E T \in Types :
        /\ last.op = "assign" /\ last.ty = T
        /\ last.res = Err("BorrowMutError")
        /\ Len(calls) = 1 /\ Len(Subs(properties, T)) = 2
        /\ calls[1].nested = Some([op |-> "assign", executed |-> FALSE])

====
